---------------------------- MODULE Spec2Model ----------------------------
(***************************************************************************)
(* Model of main.py: a linear fetch -> normalise -> dedupe -> export       *)
(* pipeline over four literature providers (PubMed, arXiv, CrossRef,       *)
(* Europe PMC).                                                            *)
(*                                                                         *)
(* Text is a sequence of one-character strings, so that strip(), lower(),  *)
(* split(), join() and the csv writer's quoting are computed character by  *)
(* character.  A multi-character element stands for a fixed literal that   *)
(* no operation looks into (a URL prefix, a provider name).                *)
(***************************************************************************)
EXTENDS Integers, Sequences, FiniteSets, TLC

(***************************************************************************)
(* Bounds of the model.                                                    *)
(***************************************************************************)
\* Budgets explored: MAX_RESULTS ranges over 0..MaxBudget (100000 in the source).
MaxBudget == 2
\* Most entries arXiv or Europe PMC put in one page (the source asks for 200, 100).
MaxPage == 2
\* Most records PubMed or CrossRef return to the single request (CrossRef is asked for 50).
MaxRows == 1

(***************************************************************************)
(* Python values and string operations.                                    *)
(***************************************************************************)
\* Python's None where a text is expected (an element's .text, a JSON null).
None == <<"<None>">>

\* str(None)
StrNone == <<"N", "o", "n", "e">>

Whitespace == {" ", "\n", "\r", "\t"}

UpperCase == <<"A", "B", "C", "D", "E", "F", "G", "H", "I", "J", "K", "L", "M",
               "N", "O", "P", "Q", "R", "S", "T", "U", "V", "W", "X", "Y", "Z">>

LowerCase == <<"a", "b", "c", "d", "e", "f", "g", "h", "i", "j", "k", "l", "m",
               "n", "o", "p", "q", "r", "s", "t", "u", "v", "w", "x", "y", "z">>

\* The lower-case letter of each upper-case letter.
UpperToLower ==
    [c \in {UpperCase[i] : i \in 1..26} |->
        LowerCase[CHOOSE i \in 1..26 : UpperCase[i] = c]]

\* str.lower() on one character.
LowerChar(c) == IF c \in DOMAIN UpperToLower THEN UpperToLower[c] ELSE c

\* str.lower()
Lower(s) == [i \in 1..Len(s) |-> LowerChar(s[i])]

RECURSIVE LStrip(_)
LStrip(s) ==
    IF s # <<>> /\ Head(s) \in Whitespace THEN LStrip(Tail(s)) ELSE s

RECURSIVE RStrip(_)
RStrip(s) ==
    IF s # <<>> /\ s[Len(s)] \in Whitespace
    THEN RStrip(SubSeq(s, 1, Len(s) - 1))
    ELSE s

\* str.strip()
Strip(s) == RStrip(LStrip(s))

\* s.split(sep)[0]: the text before the first sep, all of s when there is none.
RECURSIVE SplitFirst(_, _)
SplitFirst(s, sep) ==
    IF s = <<>> \/ Head(s) = sep
    THEN <<>>
    ELSE <<Head(s)>> \o SplitFirst(Tail(s), sep)

\* sep.join(parts)
RECURSIVE Join(_, _)
Join(sep, parts) ==
    IF parts = <<>> THEN <<>>
    ELSE IF Len(parts) = 1 THEN parts[1]
    ELSE parts[1] \o sep \o Join(sep, Tail(parts))

Digits == <<"0", "1", "2", "3", "4", "5", "6", "7", "8", "9">>

\* str(n) for an int n >= 0
RECURSIVE StrInt(_)
StrInt(n) ==
    IF n < 10 THEN <<Digits[n + 1]>>
    ELSE StrInt(n \div 10) \o <<Digits[(n % 10) + 1]>>

\* d.get(k, default) on a parsed provider object: `keys` are the keys it holds.
Get(d, k, default) == IF k \in d.keys THEN d[k] ELSE default


Min(a, b) == IF a < b THEN a ELSE b

\* The ordered responses a provider can give: at most n items, each from S.
SeqsUpTo(S, n) == UNION {[1..k -> S] : k \in 0..n}

(***************************************************************************)
(* Program constants.                                                      *)
(***************************************************************************)
\* batch_size of search_arxiv: what start advances by per page.
batch_size == 200

FieldNames == <<"Source", "Title", "Authors", "Year", "Abstract", "DOI", "URL">>

(***************************************************************************)
(* Provider responses the model draws from.  An absent key keeps a dummy   *)
(* value that Get never returns.                                           *)
(***************************************************************************)
\* Medline records as parsed by Medline.parse.
PubmedRecords ==
    { [keys |-> {"TI", "AU", "DP", "AB", "LID", "PMID"},
       TI |-> <<"D", "t", " ">>,
       AU |-> << <<"A">>, <<"B">> >>,
       DP |-> <<"2", "0", "2", "2", " ", "J", "a", "n">>,
       AB |-> <<"a", ",", "\"">>,
       LID |-> <<"1">>,
       PMID |-> <<"7">>],
      [keys |-> {},
       TI |-> <<>>, AU |-> <<>>, DP |-> <<>>, AB |-> <<>>,
       LID |-> <<>>, PMID |-> <<>>] }

\* Atom entries: each field is the .text of the child element found, None
\* when the element is empty.  title, published and author names carry text
\* (the adapter calls a string method on them).
ArxivEntries ==
    { [title |-> <<" ", "d", "t">>,
       authors |-> << <<"A">> >>,
       published |-> <<"2", "0", "2", "2", "-", "0", "1">>,
       summary |-> <<"a", "\n", "b">>,
       id |-> <<"http://arxiv.org/abs/", "1">>],
      [title |-> <<"D", "x">>,
       authors |-> << <<"O", "\"", "N">>, <<"B", ",", "C">> >>,
       published |-> <<"2", "0", "2", "2", "-", "0", "2">>,
       summary |-> None,
       id |-> <<"http://arxiv.org/abs/", "2">>] }

\* Items of the CrossRef JSON message; issued is the year date-parts[0][0].
CrossrefItems ==
    { [keys |-> {"title", "author", "issued", "DOI", "URL"},
       title |-> << <<"D", "T">> >>,
       author |-> << [keys |-> {"given", "family"}, given |-> <<"J">>, family |-> <<"D">>],
                     [keys |-> {"family"}, given |-> <<>>, family |-> <<"E">>] >>,
       issued |-> 2022,
       DOI |-> <<"1", "0">>,
       URL |-> <<"http://dx.doi.org/", "1", "0">>],
      [keys |-> {},
       title |-> <<>>, author |-> <<>>, issued |-> 0, DOI |-> <<>>, URL |-> <<>>] }

\* Hits of the Europe PMC JSON result list.
EpmcHits ==
    { [keys |-> {"title", "authorList", "pubYear", "source", "id"},
       title |-> <<"D", "t">>,
       authorList |-> [keys |-> {"author"},
                       author |-> << [keys |-> {"fullName"}, fullName |-> <<"A">>],
                                     [keys |-> {}, fullName |-> <<>>] >>],
       pubYear |-> <<"2", "0", "2", "2", " ">>,
       abstractText |-> <<>>,
       doi |-> <<>>,
       source |-> <<"M", "E", "D">>,
       id |-> <<"7">>] }

(***************************************************************************)
(* Normalisation of one provider item into the common record.              *)
(***************************************************************************)
SemiSpace == <<";", " ">>

PubmedRecord(rec) ==
    [Source |-> "PubMed",
     Title |-> Strip(Get(rec, "TI", <<>>)),
     Authors |-> Join(SemiSpace, Get(rec, "AU", <<>>)),
     Year |-> SplitFirst(Get(rec, "DP", <<>>), " "),
     Abstract |-> Get(rec, "AB", <<>>),
     DOI |-> Get(rec, "LID", <<>>),
     URL |-> <<"https://pubmed.ncbi.nlm.nih.gov/">> \o Get(rec, "PMID", <<>>) \o <<"/">>]

ArxivRecord(entry) ==
    [Source |-> "arXiv",
     Title |-> Strip(entry.title),
     Authors |-> Join(SemiSpace, entry.authors),
     Year |-> SplitFirst(entry.published, "-"),
     Abstract |-> entry.summary,
     DOI |-> <<>>,
     URL |-> entry.id]

\* " ".join(name_parts) for one CrossRef author
CrossrefAuthor(a) ==
    Join(<<" ">>, (IF "given" \in a.keys THEN <<a.given>> ELSE <<>>)
                  \o (IF "family" \in a.keys THEN <<a.family>> ELSE <<>>))

\* authors: one name per entry of item.get("author", [])
CrossrefAuthors(as) == [i \in 1..Len(as) |-> CrossrefAuthor(as[i])]

\* str(item.get("issued", {}).get("date-parts", [[None]])[0][0])
CrossrefYear(item) ==
    IF "issued" \in item.keys THEN StrInt(item.issued) ELSE StrNone

CrossrefRecord(item) ==
    [Source |-> "CrossRef",
     Title |-> Strip(Get(item, "title", << <<>> >>)[1]),
     Authors |-> Join(SemiSpace, CrossrefAuthors(Get(item, "author", <<>>))),
     Year |-> CrossrefYear(item),
     Abstract |-> <<>>,
     DOI |-> Get(item, "DOI", <<>>),
     URL |-> Get(item, "URL", <<>>)]

EpmcAuthorName(a) == Get(a, "fullName", <<>>)

\* [a.get("fullName", "") for a in ...]
EpmcAuthorNames(as) == [i \in 1..Len(as) |-> EpmcAuthorName(as[i])]

EpmcRecord(hit) ==
    [Source |-> "Europe PMC",
     Title |-> Strip(Get(hit, "title", <<>>)),
     Authors |-> Join(SemiSpace,
                      EpmcAuthorNames(Get(Get(hit, "authorList",
                                              [keys |-> {}, author |-> <<>>]),
                                          "author", <<>>))),
     Year |-> Get(hit, "pubYear", <<>>),
     Abstract |-> Get(hit, "abstractText", <<>>),
     DOI |-> Get(hit, "doi", <<>>),
     URL |-> <<"https://europepmc.org/article/">> \o Get(hit, "source", <<>>)
             \o <<"/">> \o Get(hit, "id", <<>>)]

(***************************************************************************)
(* Summary, deduplication and export.                                      *)
(***************************************************************************)
\* Counter(xs): a mapping from each value of xs to its number of occurrences.
RECURSIVE CounterFrom(_, _, _)
CounterFrom(xs, i, c) ==
    IF i > Len(xs) THEN c
    ELSE CounterFrom(xs, i + 1,
                     IF xs[i] \in DOMAIN c
                     THEN [c EXCEPT ![xs[i]] = @ + 1]
                     ELSE c @@ (xs[i] :> 1))

\* Mutant: the first element is not counted.
CounterSkipsFirst(xs) == CounterFrom(xs, 2, <<>>)

Counter(xs) == CounterFrom(xs, 1, <<>>)

SourcesOf(rs) == [i \in 1..Len(rs) |-> rs[i].Source]

\* Mutant: the title is compared as written.
DedupKeyCaseSensitive(r) == <<r.Title, r.Year>>

\* Mutant: the year is left out of the key.
DedupKeyTitleOnly(r) == <<Lower(r.Title)>>

\* key = (r["Title"].lower(), r["Year"])
DedupKey(r) == <<Lower(r.Title), r.Year>>

\* The scan of the list: a record is kept when its key is not in seen yet.
RECURSIVE DedupFrom(_, _, _, _)
DedupFrom(rs, i, seenKeys, kept) ==
    IF i > Len(rs) THEN [seen |-> seenKeys, unique_results |-> kept]
    ELSE IF DedupKey(rs[i]) \notin seenKeys
         THEN DedupFrom(rs, i + 1, seenKeys \cup {DedupKey(rs[i])}, Append(kept, rs[i]))
         ELSE DedupFrom(rs, i + 1, seenKeys, kept)

\* Mutant: the scan starts at the second record.
RemoveDuplicatesFromSecond(rs) == DedupFrom(rs, 2, {}, <<>>)

RemoveDuplicatesOf(rs) == DedupFrom(rs, 1, {}, <<>>)

CsvSpecial == {",", "\"", "\r", "\n"}

RECURSIVE DoubleQuotes(_)
DoubleQuotes(s) ==
    IF s = <<>> THEN <<>>
    ELSE (IF Head(s) = "\"" THEN <<"\"", "\"">> ELSE <<Head(s)>>) \o DoubleQuotes(Tail(s))

\* Mutant: no field is ever quoted.
CsvFieldUnquoted(v) == IF v = None THEN <<>> ELSE v

\* csv.writer with the default dialect: None is written as the empty field;
\* a field holding the delimiter, the quote character or a line-terminator
\* character is quoted, its quotes doubled.
CsvField(v) ==
    IF v = None THEN <<>>
    ELSE IF \E i \in 1..Len(v) : v[i] \in CsvSpecial
         THEN <<"\"">> \o DoubleQuotes(v) \o <<"\"">>
         ELSE v

\* One written row: the fields joined by the delimiter, then "\r\n".
CsvRow(fields) ==
    Join(<<",">>, [i \in 1..Len(fields) |-> CsvField(fields[i])]) \o <<"\r", "\n">>

RowValues(r) == << <<r.Source>>, r.Title, r.Authors, r.Year, r.Abstract, r.DOI, r.URL >>

HeaderValues == [i \in 1..Len(FieldNames) |-> <<FieldNames[i]>>]

RECURSIVE CsvRows(_)
CsvRows(rs) ==
    IF rs = <<>> THEN <<>> ELSE CsvRow(RowValues(Head(rs))) \o CsvRows(Tail(rs))

\* writer.writeheader() followed by writer.writerow(row) for each record.
CsvFile(rs) == CsvRow(HeaderValues) \o CsvRows(rs)

(***************************************************************************)
(* State.                                                                  *)
(***************************************************************************)
VARIABLES
    pc,                    \* the section of the script about to run
    MAX_RESULTS,           \* the budget (a source-level constant, fixed per run)
    results,               \* the global accumulator every adapter appends to
    retrieved,             \* local of search_arxiv / search_europe_pmc
    start,                 \* local of search_arxiv
    page,                  \* local of search_europe_pmc
    failed,                \* providers that answered with a non-success status
    printed,               \* providers named in a "Failed request" diagnostic
    source_counts_before,
    seen,
    unique_results,
    source_counts_after,
    csv_file               \* content of oos/combined_results.csv

vars == <<pc, MAX_RESULTS, results, retrieved, start, page, failed, printed,
          source_counts_before, seen, unique_results, source_counts_after, csv_file>>

Sources == <<"PubMed", "arXiv", "CrossRef", "Europe PMC">>

\* HTTP statuses a provider answers with: success, or a transport failure.
Statuses == {200, 503}

\* Mutant: search_crossref is called before search_arxiv.
SectionAfterCrossrefFirst(section) ==
    CASE section = "search_pubmed" -> "search_crossref"
      [] section = "search_crossref" -> "search_arxiv"
      [] section = "search_arxiv" -> "search_europe_pmc"
      [] section = "search_europe_pmc" -> "summary_before"
      [] section = "summary_before" -> "remove_duplicates"
      [] section = "remove_duplicates" -> "summary_after"
      [] section = "summary_after" -> "save_to_csv"
      [] section = "save_to_csv" -> "done"

\* RUN SEARCHES: the section that follows each section of the script.
SectionAfter(section) ==
    CASE section = "search_pubmed" -> "search_arxiv"
      [] section = "search_arxiv" -> "search_crossref"
      [] section = "search_crossref" -> "search_europe_pmc"
      [] section = "search_europe_pmc" -> "summary_before"
      [] section = "summary_before" -> "remove_duplicates"
      [] section = "remove_duplicates" -> "summary_after"
      [] section = "summary_after" -> "save_to_csv"
      [] section = "save_to_csv" -> "done"

\* Mutant: the loop goes on while retrieved <= MAX_RESULTS.
LoopCondInclusive(n, budget) == n <= budget

\* while retrieved < MAX_RESULTS
LoopCond(n, budget) == n < budget

\* results.append(...) for each item of one response, in order
Extend(rs, new) == rs \o new

Init ==
    /\ pc = "search_pubmed"
    /\ MAX_RESULTS \in 0..MaxBudget
    /\ results = <<>>
    /\ retrieved = 0
    /\ start = 0
    /\ page = 1
    /\ failed = {}
    /\ printed = {}
    /\ source_counts_before = <<>>
    /\ seen = {}
    /\ unique_results = <<>>
    /\ source_counts_after = <<>>
    /\ csv_file = <<>>

(***************************************************************************)
(* search_pubmed.  Entrez.esearch / Entrez.efetch raise on an HTTP error   *)
(* and the function catches nothing, so a failed request ends the script.  *)
(* esearch is given retmax = MAX_RESULTS; efetch returns the records of    *)
(* the ids found.                                                          *)
(***************************************************************************)
PubmedFails ==
    /\ pc = "search_pubmed"
    /\ failed' = failed \cup {"PubMed"}
    /\ pc' = "crashed"
    /\ UNCHANGED <<MAX_RESULTS, results, retrieved, start, page, printed,
                   source_counts_before, seen, unique_results, source_counts_after,
                   csv_file>>

SearchPubmed ==
    /\ pc = "search_pubmed"
    /\ \E records \in SeqsUpTo(PubmedRecords, Min(MaxRows, MAX_RESULTS)) :
          results' = Extend(results, [i \in 1..Len(records) |-> PubmedRecord(records[i])])
    /\ pc' = SectionAfter("search_pubmed")
    /\ UNCHANGED <<MAX_RESULTS, retrieved, start, page, failed, printed,
                   source_counts_before, seen, unique_results, source_counts_after,
                   csv_file>>

(***************************************************************************)
(* search_arxiv: one step per evaluation of the while condition.  The      *)
(* status of the response is never read: its body is parsed as a feed.  A  *)
(* failed request carries either a body that is no XML (ET.fromstring      *)
(* raises) or a feed without entries.                                      *)
(***************************************************************************)
ArxivReturn ==
    /\ pc = "search_arxiv"
    /\ ~LoopCond(retrieved, MAX_RESULTS)
    /\ pc' = SectionAfter("search_arxiv")
    /\ retrieved' = 0
    /\ start' = 0
    /\ UNCHANGED <<MAX_RESULTS, results, page, failed, printed,
                   source_counts_before, seen, unique_results, source_counts_after,
                   csv_file>>

ArxivFailsUnparsed ==
    /\ pc = "search_arxiv"
    /\ LoopCond(retrieved, MAX_RESULTS)
    /\ failed' = failed \cup {"arXiv"}
    /\ pc' = "crashed"
    /\ UNCHANGED <<MAX_RESULTS, results, retrieved, start, page, printed,
                   source_counts_before, seen, unique_results, source_counts_after,
                   csv_file>>

ArxivPage ==
    /\ pc = "search_arxiv"
    /\ LoopCond(retrieved, MAX_RESULTS)
    /\ \E status \in Statuses :
       \E entries \in SeqsUpTo(ArxivEntries, IF status = 200 THEN MaxPage ELSE 0) :
          /\ failed' = IF status = 200 THEN failed ELSE failed \cup {"arXiv"}
          /\ IF entries = <<>>
             THEN /\ pc' = SectionAfter("search_arxiv")
                  /\ retrieved' = 0
                  /\ start' = 0
                  /\ results' = results
             ELSE /\ results' = Extend(results,
                                      [i \in 1..Len(entries) |-> ArxivRecord(entries[i])])
                  /\ retrieved' = retrieved + Len(entries)
                  /\ start' = start + batch_size
                  /\ pc' = pc
    /\ UNCHANGED <<MAX_RESULTS, page, printed,
                   source_counts_before, seen, unique_results, source_counts_after,
                   csv_file>>

(***************************************************************************)
(* search_crossref: one request; a non-200 status prints and returns.      *)
(***************************************************************************)
SearchCrossref ==
    /\ pc = "search_crossref"
    /\ \E status \in Statuses :
          IF status # 200
          THEN /\ printed' = printed \cup {"CrossRef"}
               /\ failed' = failed \cup {"CrossRef"}
               /\ results' = results
          ELSE /\ \E items \in SeqsUpTo(CrossrefItems, MaxRows) :
                     results' = Extend(results,
                                       [i \in 1..Len(items) |-> CrossrefRecord(items[i])])
               /\ UNCHANGED <<printed, failed>>
    /\ pc' = SectionAfter("search_crossref")
    /\ UNCHANGED <<MAX_RESULTS, retrieved, start, page,
                   source_counts_before, seen, unique_results, source_counts_after,
                   csv_file>>

(***************************************************************************)
(* search_europe_pmc: one step per evaluation of the while condition.      *)
(***************************************************************************)
EpmcReturn ==
    /\ pc = "search_europe_pmc"
    /\ ~LoopCond(retrieved, MAX_RESULTS)
    /\ pc' = SectionAfter("search_europe_pmc")
    /\ retrieved' = 0
    /\ page' = 1
    /\ UNCHANGED <<MAX_RESULTS, results, start, failed, printed,
                   source_counts_before, seen, unique_results, source_counts_after,
                   csv_file>>

EpmcPage ==
    /\ pc = "search_europe_pmc"
    /\ LoopCond(retrieved, MAX_RESULTS)
    /\ \E status \in Statuses :
          IF status # 200
          THEN /\ printed' = printed \cup {"Europe PMC"}
               /\ failed' = failed \cup {"Europe PMC"}
               /\ pc' = SectionAfter("search_europe_pmc")
               /\ retrieved' = 0
               /\ page' = 1
               /\ results' = results
          ELSE /\ \E hit_list \in SeqsUpTo(EpmcHits, MaxPage) :
                     IF hit_list = <<>>
                     THEN /\ pc' = SectionAfter("search_europe_pmc")
                          /\ retrieved' = 0
                          /\ page' = 1
                          /\ results' = results
                     ELSE /\ results' = Extend(results,
                                    [i \in 1..Len(hit_list) |-> EpmcRecord(hit_list[i])])
                          /\ retrieved' = retrieved + Len(hit_list)
                          /\ page' = page + 1
                          /\ pc' = pc
               /\ UNCHANGED <<printed, failed>>
    /\ UNCHANGED <<MAX_RESULTS, start,
                   source_counts_before, seen, unique_results, source_counts_after,
                   csv_file>>

(***************************************************************************)
(* The rest of the script.                                                 *)
(***************************************************************************)
SummaryBefore ==
    /\ pc = "summary_before"
    /\ source_counts_before' = Counter(SourcesOf(results))
    /\ pc' = SectionAfter("summary_before")
    /\ UNCHANGED <<MAX_RESULTS, results, retrieved, start, page, failed, printed,
                   seen, unique_results, source_counts_after, csv_file>>

RemoveDuplicates ==
    /\ pc = "remove_duplicates"
    /\ seen' = RemoveDuplicatesOf(results).seen
    /\ unique_results' = RemoveDuplicatesOf(results).unique_results
    /\ pc' = SectionAfter("remove_duplicates")
    /\ UNCHANGED <<MAX_RESULTS, results, retrieved, start, page, failed, printed,
                   source_counts_before, source_counts_after, csv_file>>

SummaryAfter ==
    /\ pc = "summary_after"
    /\ source_counts_after' = Counter(SourcesOf(unique_results))
    /\ pc' = SectionAfter("summary_after")
    /\ UNCHANGED <<MAX_RESULTS, results, retrieved, start, page, failed, printed,
                   source_counts_before, seen, unique_results, csv_file>>

SaveToCsv ==
    /\ pc = "save_to_csv"
    /\ csv_file' = CsvFile(unique_results)
    /\ pc' = SectionAfter("save_to_csv")
    /\ UNCHANGED <<MAX_RESULTS, results, retrieved, start, page, failed, printed,
                   source_counts_before, seen, unique_results, source_counts_after>>

Next ==
    \/ PubmedFails
    \/ SearchPubmed
    \/ ArxivReturn
    \/ ArxivFailsUnparsed
    \/ ArxivPage
    \/ SearchCrossref
    \/ EpmcReturn
    \/ EpmcPage
    \/ SummaryBefore
    \/ RemoveDuplicates
    \/ SummaryAfter
    \/ SaveToCsv

Spec == Init /\ [][Next]_vars

(***************************************************************************)
(* Vocabulary of the properties.                                           *)
(***************************************************************************)
\* The deduplication section has run.
Deduplicated == pc \in {"summary_after", "save_to_csv", "done"}

\* The deduplication section has just run: results is its input and
\* unique_results its output (no later section changes either).
JustDeduplicated == pc = "summary_after"

\* The two cases of each letter.
CasePairs == {{UpperCase[k], LowerCase[k]} : k \in 1..26}

\* Two texts are identical ignoring letter case.
EqualIgnoringCase(s, t) ==
    /\ Len(s) = Len(t)
    /\ \A i \in 1..Len(s) : s[i] = t[i] \/ {s[i], t[i]} \in CasePairs

\* Two records have the same dedup key.
SameKey(a, b) == EqualIgnoringCase(a.Title, b.Title) /\ a.Year = b.Year

\* Position of a provider in the fixed order PubMed, arXiv, CrossRef, Europe PMC.
RankOf ==
    [source \in {Sources[k] : k \in 1..Len(Sources)} |->
        CHOOSE k \in 1..Len(Sources) : Sources[k] = source]

Rank(source) == RankOf[source]

\* Number of records of rs that come from one provider.
CountOf(rs, source) == Cardinality({i \in 1..Len(rs) : rs[i].Source = source})

\* Index in results of the first record with the key of the k-th survivor.
FirstIndex(k) ==
    CHOOSE i \in 1..Len(results) :
        /\ SameKey(results[i], unique_results[k])
        /\ \A j \in 1..(i - 1) : ~SameKey(results[j], unique_results[k])

\* C1: the deduplicated list is a subsequence of the raw list (same relative
\* order, no longer than it) holding exactly one record per dedup key of the
\* raw list, and that record is the first record of the raw list with that
\* key, all seven fields unchanged.
C1_FirstOccurrencePerKey ==
    JustDeduplicated =>
        /\ Len(unique_results) <= Len(results)
        /\ \A i \in 1..Len(results) :
              \E k \in 1..Len(unique_results) : SameKey(results[i], unique_results[k])
        /\ \A k \in 1..Len(unique_results) :
              \E i \in 1..Len(results) : SameKey(results[i], unique_results[k])
        /\ \A k, l \in 1..Len(unique_results) :
              k # l => ~SameKey(unique_results[k], unique_results[l])
        /\ \A k \in 1..Len(unique_results) :
              unique_results[k] = results[FirstIndex(k)]
        /\ \A k \in 1..(Len(unique_results) - 1) :
              FirstIndex(k) < FirstIndex(k + 1)

\* A later record with the key of an earlier, different record was dropped,
\* and records with other keys stand between and after them.
C1_Witness ==
    /\ JustDeduplicated
    /\ Len(unique_results) >= 2
    /\ \E i, j \in 1..Len(results) :
          /\ i < j
          /\ SameKey(results[i], results[j])
          /\ results[i] # results[j]
          /\ \E k \in 1..Len(unique_results) : unique_results[k] = results[i]
          /\ \A k \in 1..Len(unique_results) : unique_results[k] # results[j]

\* C2: the Deduplicator, given any two records the adapters produced, keeps
\* one of them exactly when their titles are identical ignoring letter case
\* and their year strings are identical; otherwise it keeps both.
C2_DuplicateIffCaseInsensitiveTitleAndExactYear ==
    JustDeduplicated =>
        \A a, b \in {results[i] : i \in 1..Len(results)} :
            LET out == RemoveDuplicatesOf(<<a, b>>).unique_results
            IN  /\ SameKey(a, b) <=> (Len(out) = 1)
                /\ ~SameKey(a, b) <=> (Len(out) = 2)

Year2022 == <<"2", "0", "2", "2">>

\* Titles differing only in case with year "2022" left one survivor, while the
\* same title with years "2022" and "2022 " survived twice.
C2_Witness ==
    /\ JustDeduplicated
    /\ \E i, j \in 1..Len(results) :
          /\ results[i].Title # results[j].Title
          /\ EqualIgnoringCase(results[i].Title, results[j].Title)
          /\ results[i].Year = Year2022
          /\ results[j].Year = Year2022
          /\ Cardinality({k \in 1..Len(unique_results) :
                             SameKey(unique_results[k], results[i])}) = 1
    /\ \E k, l \in 1..Len(unique_results) :
          /\ unique_results[k].Title = unique_results[l].Title
          /\ unique_results[k].Year = Year2022
          /\ unique_results[l].Year = Year2022 \o <<" ">>

\* C3: running the Deduplicator on its own output returns that output
\* unchanged: the same records in the same order.
C3_DedupIdempotent ==
    Deduplicated =>
        RemoveDuplicatesOf(unique_results).unique_results = unique_results

\* The first run dropped something and kept several records.
C3_Witness ==
    /\ Deduplicated
    /\ Len(unique_results) >= 2
    /\ Len(unique_results) < Len(results)

\* C4: a provider's non-success status is never fatal: the adapter prints a
\* diagnostic naming the provider and the script goes on.
C4_TransportFailureNeverFatal ==
    \A a \in failed : a \in printed /\ pc # "crashed"

\* C5: the raw list is grouped by source in the order PubMed, arXiv,
\* CrossRef, Europe PMC, and the survivor of every dedup key comes from the
\* earliest source, in that order, that produced the key.
C5_SourceOrderIsPriority ==
    /\ \A i \in 1..(Len(results) - 1) :
          Rank(results[i].Source) <= Rank(results[i + 1].Source)
    /\ JustDeduplicated =>
          \A k \in 1..Len(unique_results) :
              \A i \in 1..Len(results) :
                  SameKey(results[i], unique_results[k]) =>
                      Rank(unique_results[k].Source) <= Rank(results[i].Source)

\* Three sources produced the same key and the first one's record survived.
C5_Witness ==
    /\ JustDeduplicated
    /\ \E k \in 1..Len(unique_results) :
          Cardinality({results[i].Source : i \in
                          {j \in 1..Len(results) :
                              SameKey(results[j], unique_results[k])}}) >= 3

\* Line breaks of a text: "\n", "\r\n" or a lone "\r" each end a line.
LineBreaks(s) ==
    Cardinality({i \in 1..Len(s) :
                    \/ s[i] = "\n"
                    \/ s[i] = "\r" /\ (i = Len(s) \/ s[i + 1] # "\n")})

\* The text csv writes for a value (None is written as the empty text).
Written(v) == IF v = None THEN <<>> ELSE v

RECURSIVE SumLineBreaks(_)
SumLineBreaks(values) ==
    IF values = <<>> THEN 0
    ELSE LineBreaks(Written(Head(values))) + SumLineBreaks(Tail(values))

\* Line breaks inside the fields of the records.
RECURSIVE EmbeddedBreaks(_)
EmbeddedBreaks(rs) ==
    IF rs = <<>> THEN 0
    ELSE SumLineBreaks(RowValues(Head(rs))) + EmbeddedBreaks(Tail(rs))

(***************************************************************************)
(* A csv reader (default dialect), to read back what was written.  A       *)
(* character is outside quotes when an even number of quote characters     *)
(* precede it; rows end at "\r\n" outside quotes and fields at "," outside *)
(* quotes; a quoted field loses its outer quotes and has "" read as ".     *)
(***************************************************************************)
Outside(t, i) == Cardinality({j \in 1..(i - 1) : t[j] = "\""}) % 2 = 0

\* The k-th smallest element of a set of numbers.
Nth(S, k) == CHOOSE x \in S : Cardinality({y \in S : y < x}) = k - 1

\* The pieces of t between the cut positions, a cut being `width` long.
Pieces(t, cuts, width, last) ==
    [k \in 1..(Cardinality(cuts) + last) |->
        SubSeq(t,
               IF k = 1 THEN 1 ELSE Nth(cuts, k - 1) + width,
               IF k > Cardinality(cuts) THEN Len(t) ELSE Nth(cuts, k) - 1)]

RECURSIVE Collapse(_)
Collapse(t) ==
    IF t = <<>> THEN <<>>
    ELSE IF Head(t) = "\"" /\ Len(t) >= 2 /\ t[2] = "\""
         THEN <<"\"">> \o Collapse(SubSeq(t, 3, Len(t)))
         ELSE <<Head(t)>> \o Collapse(Tail(t))

Unquote(t) ==
    IF t # <<>> /\ Head(t) = "\"" THEN Collapse(SubSeq(t, 2, Len(t) - 1)) ELSE t

FieldsOf(t) ==
    LET raw == Pieces(t, {i \in 1..Len(t) : t[i] = "," /\ Outside(t, i)}, 1, 1)
    IN  [k \in 1..Len(raw) |-> Unquote(raw[k])]

CsvRowsOf(f) ==
    LET raw == Pieces(f, {i \in 1..(Len(f) - 1) :
                             f[i] = "\r" /\ f[i + 1] = "\n" /\ Outside(f, i)}, 2, 0)
    IN  [k \in 1..Len(raw) |-> FieldsOf(raw[k])]

\* C6 as stated: the file of a non-empty deduplicated list has exactly
\* len(unique_results) + 1 lines, whatever the fields hold.
C6_LinesAreRecordsPlusOne ==
    (pc = "done" /\ unique_results # <<>>) =>
        LineBreaks(csv_file) = Len(unique_results) + 1

\* C6 amended: the file of a non-empty deduplicated list holds exactly
\* len(unique_results) + 1 csv rows, the header and then one row per record
\* in deduplicated order with the record's seven values; its number of lines
\* is len(unique_results) + 1 plus the line breaks inside the fields.
C6_RowsAreRecordsPlusOne ==
    (pc = "done" /\ unique_results # <<>>) =>
        LET rows == CsvRowsOf(csv_file)
        IN  /\ Len(rows) = Len(unique_results) + 1
            /\ rows[1] = HeaderValues
            /\ \A k \in 1..Len(unique_results) :
                  rows[k + 1] =
                      [i \in 1..Len(FieldNames) |->
                          Written(RowValues(unique_results[k])[i])]
            /\ LineBreaks(csv_file) =
                  Len(unique_results) + 1 + EmbeddedBreaks(unique_results)

\* A file was written whose records hold a line break, a comma and a quote.
C6_Witness ==
    /\ pc = "done"
    /\ Len(unique_results) >= 2
    /\ EmbeddedBreaks(unique_results) >= 1
    /\ \E k \in 1..Len(unique_results) :
          /\ \E i \in 1..Len(unique_results[k].Authors) :
                 unique_results[k].Authors[i] = ","
          /\ \E i \in 1..Len(unique_results[k].Authors) :
                 unique_results[k].Authors[i] = "\""

\* C7 as stated: no adapter appends more than MAX_RESULTS records.
C7_AtMostBudgetPerAdapter ==
    \A k \in 1..Len(Sources) : CountOf(results, Sources[k]) <= MAX_RESULTS

\* C7 amended: the two paginating adapters (arXiv, Europe PMC) fetch a page
\* only while their count is below MAX_RESULTS, so each appends at most
\* MAX_RESULTS - 1 records plus one page, and nothing when MAX_RESULTS is 0.
C7_AtMostBudgetPlusLastPage ==
    \A source \in {"arXiv", "Europe PMC"} :
        CountOf(results, source) <=
            (IF MAX_RESULTS = 0 THEN 0 ELSE MAX_RESULTS - 1 + MaxPage)

\* arXiv went over a budget of two or more by a full page less one record.
C7_Witness ==
    /\ MAX_RESULTS >= 2
    /\ MaxPage >= 2
    /\ CountOf(results, "arXiv") = MAX_RESULTS - 1 + MaxPage
    /\ pc = "search_crossref"

\* C8: every field of every record is a text, never None nor the text "None"
\* that stands for it.
C8_AllFieldsNonNull ==
    \A i \in 1..Len(results) :
        \A f \in {"Title", "Authors", "Year", "Abstract", "DOI", "URL"} :
            results[i][f] \notin {None, StrNone}

RECURSIVE SumOver(_, _)
SumOver(c, keys) ==
    IF keys = {} THEN 0
    ELSE LET k == CHOOSE x \in keys : TRUE
         IN  c[k] + SumOver(c, keys \ {k})

\* C9: the per-source counts sum to the number of records, before and after
\* deduplication.
C9_CountsSumToTotal ==
    /\ pc \in {"remove_duplicates", "summary_after", "save_to_csv", "done"} =>
          SumOver(source_counts_before, DOMAIN source_counts_before) = Len(results)
    /\ pc \in {"save_to_csv", "done"} =>
          SumOver(source_counts_after, DOMAIN source_counts_after) = Len(unique_results)

\* Both summaries were computed over several sources, the second over fewer
\* records than the first.
C9_Witness ==
    /\ pc = "done"
    /\ Cardinality(DOMAIN source_counts_after) >= 3
    /\ Len(unique_results) < Len(results)
    /\ \E src \in DOMAIN source_counts_before : source_counts_before[src] >= 2

\* C10: whenever the arXiv or the Europe PMC loop is about to fetch one more
\* page, that page is at most the MAX_RESULTS-th of the run: the loop body
\* runs at most MAX_RESULTS times, so the loop ends.
C10_LoopRunsAtMostBudgetTimes ==
    /\ ENABLED ArxivPage => (start \div batch_size) + 1 <= MAX_RESULTS
    /\ ENABLED EpmcPage => page <= MAX_RESULTS

\* One entry per page: the arXiv loop body has run MAX_RESULTS >= 2 times.
C10_Witness ==
    /\ pc = "search_arxiv"
    /\ MAX_RESULTS >= 2
    /\ start = batch_size * MAX_RESULTS
    /\ CountOf(results, "arXiv") = MAX_RESULTS

=============================================================================
